---- MODULE Spec2Model ----
(***************************************************************************)
(* Model of AudioProcessing (src/audio_processing.py): one invocation of   *)
(* __call__ -- transcode, classify (with one delayed retry), persist the   *)
(* results in batches with re-queuing of unprocessed items, remove the     *)
(* artifact.  The external collaborators (ffmpeg, the Lambda function, the *)
(* DynamoDB table) are the environment: every outcome they can produce     *)
(* within the bounds below is a nondeterministic choice.                   *)
(***************************************************************************)
EXTENDS Naturals, Sequences, FiniteSets

\* ---------------------------------------------------------------- bounds
\* Largest number of entries in a classifier response's top_results.
MaxRecords == 30
\* Largest number of batch responses that report unprocessed items.
MaxRejections == 2

\* ------------------------------------------------------ program constants
batch_size == 25
reattempt_delay == 60
GoodCode == 200
\* The status codes other than 200 a response may carry.
BadCodes == {500}

\* The producer timestamps an invocation may receive, as the list of the
\* '.'-separated parts of the string: "1700000000", "1700000000.123456",
\* "1700000000.999999", "1700000000.1.2".
Timestamps ==
    { << 1700000000 >>, << 1700000000, 123456 >>, << 1700000000, 999999 >>,
      << 1700000000, 1, 2 >> }

\* The classifier responses: a status code and top_results, of which only
\* the number of entries matters here (entry i becomes request item i).  A
\* bad response carries no entry, or more entries than any good one, so
\* that its last entry is an entry of no other response.
BadResults == { 0, MaxRecords + 1 }

Responses ==
    [code : {GoodCode}, top_results : 0..MaxRecords]
        \cup [code : BadCodes, top_results : BadResults]

VARIABLES
    pc,                 \* position in __call__ / put_dynamodb
    artifact,           \* TRUE iff audio_file exists on disk
    fragment_tags,      \* AWS_KINESISVIDEO_PRODUCER_TIMESTAMP, split in parts
    lambda_response,    \* local of __call__
    producer_timestamp_sec, \* local of put_dynamodb
    request_items,      \* local of put_dynamodb: the work queue
    consumed_capacities,\* local of put_dynamodb
    retry_attempts,     \* local of put_dynamodb
    codes,              \* the status codes the classifier returned, in order
    responses,          \* the responses the classifier returned, in order
    log_info,           \* the summary lines logged by put_dynamodb, in order
    slept,              \* total seconds spent in time.sleep
    trace,              \* the external events of the invocation, in order
    batch_writes        \* the batch_write_item calls, in order

vars == << pc, artifact, fragment_tags, lambda_response,
           producer_timestamp_sec, request_items, consumed_capacities,
           retry_attempts, codes, responses, log_info, slept, trace,
           batch_writes >>

NoResponse == [code |-> 0, top_results |-> 0]

\* ---------------------------------------------------------------- helpers
Min(a, b) == IF a < b THEN a ELSE b

\* Number of occurrences of the event e in the sequence s.
Count(s, e) == Cardinality({ i \in 1..Len(s) : s[i] = e })

\* The elements of s at the positions in P, in the order of s.
Pick(s, P) ==
    LET F[i \in 0..Len(s)] ==
            IF i = 0 THEN << >>
            ELSE IF i \in P THEN Append(F[i - 1], s[i]) ELSE F[i - 1]
    IN F[Len(s)]

\* ------------------------------------------------------------ the program
good_response(res) == res.code = GoodCode

\* if not AudioProcessing.good_response(lambda_response): retry
RetryNeededAlways(res) == TRUE
RetryNeeded(res) == ~good_response(res)

\* if AudioProcessing.good_response(lambda_response): persist
ShouldPersistAlways(res) == TRUE
ShouldPersist(res) == good_response(res)

\* fragment_tags[...].split('.') unpacked into two names succeeds iff the
\* string has exactly two parts.
SplitUnpacksLenient(ts) == Len(ts) >= 2
SplitUnpacks(ts) == Len(ts) = 2

\* producer_timestamp_sec, _ = <timestamp>.split('.')
ProducerTimestampRounded(ts) ==
    IF ts[2] >= 500000 THEN ts[1] + 1 ELSE ts[1]
ProducerTimestampSec(ts) == ts[1]

\* request_items = [... for idx, species, score in top_results]: one item
\* per entry, in the order of top_results, with the entry's species and the
\* seconds of the producer timestamp as its time.  (The score of an item
\* plays no part in the control flow and is left out.)
BuildRequestItems(res, sec) ==
    [i \in 1..res.top_results |-> [species |-> i, time |-> sec]]

\* The species, and the time fields, of a list of items.
Ids(items) == [j \in 1..Len(items) |-> items[j].species]
Times(items) == [j \in 1..Len(items) |-> items[j].time]

\* request_items[:batch_size]
CurrentBatchOneMore(items) == SubSeq(items, 1, Min(batch_size + 1, Len(items)))
CurrentBatch(items) == SubSeq(items, 1, Min(batch_size, Len(items)))

\* request_items[batch_size:]
RemainderKeepsLast(items) == SubSeq(items, batch_size, Len(items))
Remainder(items) == SubSeq(items, batch_size + 1, Len(items))

\* request_items.extend(unprocessed_items)
ExtendAtHead(items, unprocessed_items) == unprocessed_items \o items
ExtendDrops(items, unprocessed_items) == items
Extend(items, unprocessed_items) == items \o unprocessed_items

\* while len(request_items) > 0
LoopCondLeavesOne(items) == Len(items) > 1
LoopCondAlways(items) == TRUE
LoopCond(items) == Len(items) > 0

\* consumed_capacities.append(CapacityUnits of the first entry, or 0.)
AppendCapacityIfReported(capacities, cc) ==
    IF Len(cc) > 0 THEN Append(capacities, cc[1]) ELSE capacities
AppendCapacity(capacities, cc) ==
    Append(capacities, IF Len(cc) > 0 THEN cc[1] ELSE 0)

Init ==
    /\ pc = "mkv2ogg"
    /\ artifact = FALSE
    /\ fragment_tags \in Timestamps
    /\ lambda_response = NoResponse
    /\ producer_timestamp_sec = 0
    /\ request_items = << >>
    /\ consumed_capacities = << >>
    /\ retry_attempts = << >>
    /\ codes = << >>
    /\ responses = << >>
    /\ log_info = << >>
    /\ slept = 0
    /\ trace = << >>
    /\ batch_writes = << >>

\* The calls of batch_write_item are recorded in batch_writes: the species
\* and the time fields of the items submitted, the species of the items
\* reported unprocessed and of the items still queued, and the
\* ConsumedCapacity and RetryAttempts of the response.
\*
\* The store's answers to one batch: the positions of the batch it reports
\* unprocessed (none, a few, or all of them), the ConsumedCapacity list and
\* the RetryAttempts count.  The unprocessed items are items of the batch
\* submitted, reported in the order of the batch; after MaxRejections
\* answers with unprocessed items the store accepts every item.
Rejections ==
    Cardinality({ i \in 1..Len(batch_writes) :
                    batch_writes[i].unprocessed # << >> })

\* The positions of a batch the store may report unprocessed, short of the
\* whole batch: the first item, the last item, items 3 and 7.
PartialPositions(batch) ==
    { P \in { {1}, {Len(batch)}, {3, 7} } : P \subseteq 1..Len(batch) }

UnprocessedChoices(batch) ==
    IF Rejections < MaxRejections
    THEN { {} } \cup PartialPositions(batch) \cup { 1..Len(batch) }
    ELSE { {} }

CapacityReports == { << >>, << 1 >> }
RetryCounts == { 0 }

\* ---------------------------------------------------------------- __call__
\* AudioProcessing.mkv2ogg(mkv_file, audio_file): ffmpeg writes the artifact.
Mkv2ogg ==
    /\ pc = "mkv2ogg"
    /\ artifact' = TRUE
    /\ trace' = Append(trace, "mkv2ogg")
    /\ pc' = "invoke1"
    /\ UNCHANGED << responses, log_info,
                    fragment_tags, lambda_response, producer_timestamp_sec,
                    request_items, consumed_capacities, retry_attempts,
                    codes, slept, batch_writes >>

\* ffmpeg.execute() raises: the exception leaves __call__.  The encoder may
\* or may not have left an output file behind.
Mkv2oggFailsSwallowed ==
    /\ pc = "mkv2ogg"
    /\ artifact' = TRUE
    /\ trace' = Append(trace, "mkv2ogg_raise")
    /\ pc' = "invoke1"
    /\ UNCHANGED << responses, log_info,
                    fragment_tags, lambda_response, producer_timestamp_sec,
                    request_items, consumed_capacities, retry_attempts,
                    codes, slept, batch_writes >>

Mkv2oggFails ==
    /\ pc = "mkv2ogg"
    /\ artifact' \in BOOLEAN
    /\ trace' = Append(trace, "mkv2ogg_raise")
    /\ pc' = "raised"
    /\ UNCHANGED << responses, log_info,
                    fragment_tags, lambda_response, producer_timestamp_sec,
                    request_items, consumed_capacities, retry_attempts,
                    codes, slept, batch_writes >>

\* lambda_response = self.invoke_lambda(audio_file), first attempt, and the
\* test "if not good_response(lambda_response)" that follows it.
InvokeFirst ==
    /\ pc = "invoke1"
    /\ artifact
    /\ \E res \in Responses :
        /\ lambda_response' = res
        /\ codes' = Append(codes, res.code)
        /\ responses' = Append(responses, res)
        /\ pc' = IF RetryNeeded(res) THEN "sleep" ELSE "dispatch"
    /\ trace' = Append(trace, "invoke")
    /\ UNCHANGED << log_info,
                    artifact, fragment_tags, producer_timestamp_sec,
                    request_items, consumed_capacities, retry_attempts,
                    slept, batch_writes >>

\* log.warn(...); time.sleep(reattempt_delay)
SleepSkipped ==
    /\ pc = "sleep"
    /\ pc' = "invoke2"
    /\ UNCHANGED << responses, log_info,
                    artifact, fragment_tags, lambda_response,
                    producer_timestamp_sec, request_items,
                    consumed_capacities, retry_attempts, codes, slept,
                    trace, batch_writes >>

Sleep ==
    /\ pc = "sleep"
    /\ slept' = slept + reattempt_delay
    /\ trace' = Append(trace, "sleep")
    /\ pc' = "invoke2"
    /\ UNCHANGED << responses, log_info,
                    artifact, fragment_tags, lambda_response,
                    producer_timestamp_sec, request_items,
                    consumed_capacities, retry_attempts, codes,
                    batch_writes >>

\* lambda_response = self.invoke_lambda(audio_file), the retried attempt.
InvokeSecondKeepsResults ==
    /\ pc = "invoke2"
    /\ artifact
    /\ \E res \in Responses :
        /\ lambda_response' = [code |-> res.code,
                               top_results |-> lambda_response.top_results]
        /\ codes' = Append(codes, res.code)
        /\ responses' = Append(responses, res)
    /\ trace' = Append(trace, "invoke")
    /\ pc' = "dispatch"
    /\ UNCHANGED << log_info,
                    artifact, fragment_tags, producer_timestamp_sec,
                    request_items, consumed_capacities, retry_attempts,
                    slept, batch_writes >>

InvokeSecond ==
    /\ pc = "invoke2"
    /\ artifact
    /\ \E res \in Responses :
        /\ lambda_response' = res
        /\ codes' = Append(codes, res.code)
        /\ responses' = Append(responses, res)
    /\ trace' = Append(trace, "invoke")
    /\ pc' = "dispatch"
    /\ UNCHANGED << log_info,
                    artifact, fragment_tags, producer_timestamp_sec,
                    request_items, consumed_capacities, retry_attempts,
                    slept, batch_writes >>

\* invoke_lambda raises (the client call or the parsing of its payload
\* fails): the exception leaves __call__, os.remove is not reached.
InvokeRaises ==
    /\ pc \in {"invoke1", "invoke2"}
    /\ trace' = Append(trace, "invoke_raise")
    /\ pc' = "raised"
    /\ UNCHANGED << responses, log_info,
                    artifact, fragment_tags, lambda_response,
                    producer_timestamp_sec, request_items,
                    consumed_capacities, retry_attempts, codes, slept,
                    batch_writes >>

\* if good_response(lambda_response): self.put_dynamodb(...) else: log.warn
Dispatch ==
    /\ pc = "dispatch"
    /\ IF ShouldPersist(lambda_response)
       THEN /\ pc' = "put_dynamodb"
            /\ trace' = Append(trace, "put_dynamodb")
       ELSE /\ pc' = "remove"
            /\ trace' = Append(trace, "warn_not_writing")
    /\ UNCHANGED << responses, log_info,
                    artifact, fragment_tags, lambda_response,
                    producer_timestamp_sec, request_items,
                    consumed_capacities, retry_attempts, codes, slept,
                    batch_writes >>

\* os.remove(audio_file), then __call__ returns.
Remove ==
    /\ pc = "remove"
    /\ artifact
    /\ artifact' = FALSE
    /\ trace' = Append(trace, "remove")
    /\ pc' = "returned"
    /\ UNCHANGED << responses, log_info,
                    fragment_tags, lambda_response, producer_timestamp_sec,
                    request_items, consumed_capacities, retry_attempts,
                    codes, slept, batch_writes >>

\* ------------------------------------------------------------ put_dynamodb
\* The statements before the loop: the split of the timestamp, the
\* request items, the empty accumulators.
PutSetup ==
    /\ pc = "put_dynamodb"
    /\ SplitUnpacks(fragment_tags)
    /\ producer_timestamp_sec' = ProducerTimestampSec(fragment_tags)
    /\ request_items' =
           BuildRequestItems(lambda_response,
                             ProducerTimestampSec(fragment_tags))
    /\ consumed_capacities' = << >>
    /\ retry_attempts' = << >>
    /\ pc' = "loop"
    /\ UNCHANGED << responses, log_info,
                    artifact, fragment_tags, lambda_response, codes, slept,
                    trace, batch_writes >>

\* The unpacking of the split raises ValueError: the exception leaves
\* put_dynamodb and __call__.
PutSetupRaises ==
    /\ pc = "put_dynamodb"
    /\ ~SplitUnpacks(fragment_tags)
    /\ trace' = Append(trace, "split_raise")
    /\ pc' = "raised"
    /\ UNCHANGED << responses, log_info,
                    artifact, fragment_tags, lambda_response,
                    producer_timestamp_sec, request_items,
                    consumed_capacities, retry_attempts, codes, slept,
                    batch_writes >>

\* One iteration of the while loop.
BatchWrite ==
    /\ pc = "loop"
    /\ LoopCond(request_items)
    /\ LET current_batch == CurrentBatch(request_items)
           rest == Remainder(request_items)
       IN \E P \in UnprocessedChoices(current_batch),
             cc \in CapacityReports, ra \in RetryCounts :
            LET unprocessed_items == Pick(current_batch, P)
            IN /\ batch_writes' = Append(batch_writes,
                      [batch |-> Ids(current_batch),
                       times |-> Times(current_batch),
                       unprocessed |-> Ids(unprocessed_items),
                       queued |-> Ids(rest),
                       capacity |-> cc,
                       retries |-> ra])
               /\ request_items' = IF unprocessed_items # << >>
                                   THEN Extend(rest, unprocessed_items)
                                   ELSE rest
               /\ consumed_capacities' =
                      AppendCapacity(consumed_capacities, cc)
               /\ retry_attempts' = Append(retry_attempts, ra)
    /\ trace' = Append(trace, "batch_write")
    /\ UNCHANGED << responses, log_info,
                    pc, artifact, fragment_tags, lambda_response,
                    producer_timestamp_sec, codes, slept >>

\* batch_write_item raises: the exception leaves put_dynamodb and __call__
\* with the batch taken from the queue and not written.
BatchWriteRaises ==
    /\ pc = "loop"
    /\ LoopCond(request_items)
    /\ request_items' = Remainder(request_items)
    /\ trace' = Append(trace, "batch_write_raise")
    /\ pc' = "raised"
    /\ UNCHANGED << responses, log_info,
                    artifact, fragment_tags, lambda_response,
                    producer_timestamp_sec, consumed_capacities,
                    retry_attempts, codes, slept, batch_writes >>

\* The loop condition is false: log.info(summary), put_dynamodb returns.
Summary ==
    /\ pc = "loop"
    /\ ~LoopCond(request_items)
    /\ trace' = Append(trace, "summary")
    /\ log_info' = Append(log_info,
           [timestamp |-> fragment_tags,
            consumed_capacities |-> consumed_capacities,
            retry_attempts |-> retry_attempts])
    /\ pc' = "remove"
    /\ UNCHANGED << responses,
                    artifact, fragment_tags, lambda_response,
                    producer_timestamp_sec, request_items,
                    consumed_capacities, retry_attempts, codes, slept,
                    batch_writes >>

Next ==
    \/ Mkv2ogg
    \/ Mkv2oggFails
    \/ InvokeFirst
    \/ Sleep
    \/ InvokeSecond
    \/ InvokeRaises
    \/ Dispatch
    \/ Remove
    \/ PutSetup
    \/ PutSetupRaises
    \/ BatchWrite
    \/ BatchWriteRaises
    \/ Summary

Spec == Init /\ [][Next]_vars

\* The program runs to completion: a step that can be taken is taken.
FairSpec == Spec /\ WF_vars(Next)

\* ------------------------------------------------------------ observations
\* Classifier invocations issued (answered or raised).
Invokes == Count(trace, "invoke") + Count(trace, "invoke_raise")
Sleeps == Count(trace, "sleep")
\* Entries into put_dynamodb.
PutCalls == Count(trace, "put_dynamodb")
Summaries == Count(trace, "summary")
\* The number of records put_dynamodb was given.
N == lambda_response.top_results
InPut == PutCalls = 1 /\ pc # "put_dynamodb" /\ Count(trace, "split_raise") = 0
Writes == Len(batch_writes)
Range(s) == { s[i] : i \in 1..Len(s) }
\* The species of the items in the work queue.
Queue == Ids(request_items)
Batch(k) == batch_writes[k].batch
Positions(k) == 1..Len(Batch(k))
\* The records the store accepted in batch write k.
AcceptedIn(k) == Range(Batch(k)) \ Range(batch_writes[k].unprocessed)
\* The records submitted in the batch writes a..b.
SubmittedIn(a, b) == UNION { Range(Batch(k)) : k \in a..b }
\* The records submitted in batch write k before position j.
HeadOf(k, j) == { Batch(k)[i] : i \in 1..(j - 1) }
\* The first position of batch write k that holds a record of S; 0 if none.
FirstOf(k, S) ==
    LET hit == { j \in Positions(k) : Batch(k)[j] \in S }
    IN IF hit = {} THEN 0 ELSE CHOOSE j \in hit : \A i \in hit : j <= i
\* The item at position j of batch write k was in an earlier batch write.
Requeued(k, j) == Batch(k)[j] \in SubmittedIn(1, k - 1)
\* The number of acceptances in the batch writes 1..k.
RECURSIVE AcceptedCount(_)
AcceptedCount(k) ==
    IF k = 0 THEN 0
    ELSE AcceptedCount(k - 1)
            + Len(Batch(k)) - Len(batch_writes[k].unprocessed)
CeilDiv(n) == (n + batch_size - 1) \div batch_size

\* ------------------------------------------------------------------ claims

\* C1: whenever the transcoder step completed, the artifact is removed on
\* every exit from __call__, normal return or error.
C1_ArtifactRemovedOnEveryExit ==
    (pc \in {"returned", "raised"} /\ Count(trace, "mkv2ogg") = 1)
        => ~artifact

\* C2: at every loop head the records in the work queue plus the records the
\* store accepted are exactly the N original records, each once; no record
\* is submitted again after it was accepted; when the loop has ended every
\* record has been accepted exactly once.
C2_NoDropNoDuplicate ==
    InPut /\ pc # "raised" =>
        /\ Len(request_items) + AcceptedCount(Writes) = N
        /\ Range(Queue) \cup UNION { AcceptedIn(k) : k \in 1..Writes }
               = 1..N
        /\ \A k \in 1..Writes :
               AcceptedIn(k) \cap SubmittedIn(k + 1, Writes) = {}
        /\ pc \in {"remove", "returned"} =>
               /\ request_items = << >>
               /\ AcceptedCount(Writes) = N

C2_Witness ==
    /\ pc = "returned"
    /\ N > batch_size
    /\ Rejections >= 1
    /\ AcceptedCount(Writes) = N

\* C3: when both classifier responses are bad, put_dynamodb is not entered,
\* no batch write is issued, there is no third invocation, and the
\* invocation goes on to remove the artifact and return.
C3_BothBadSkipsPersistence ==
    (Len(codes) = 2 /\ codes[1] # GoodCode /\ codes[2] # GoodCode) =>
        /\ PutCalls = 0
        /\ Writes = 0
        /\ Invokes = 2
        /\ pc \in {"dispatch", "remove", "returned"}
        /\ pc = "returned" => ~artifact

C3_Witness ==
    /\ pc = "returned"
    /\ Len(codes) = 2 /\ codes[1] # GoodCode /\ codes[2] # GoodCode
    /\ ~artifact

\* C4: when the first classifier response has code 200, the classifier is
\* invoked exactly once, nothing is slept, and put_dynamodb is entered
\* exactly once.
C4_FirstGoodPersistsOnce ==
    (Len(codes) >= 1 /\ codes[1] = GoodCode) =>
        /\ Len(codes) = 1
        /\ Invokes = 1
        /\ Sleeps = 0 /\ slept = 0
        /\ PutCalls <= 1
        /\ pc # "dispatch" => PutCalls = 1

C4_Witness ==
    /\ pc = "returned"
    /\ codes = << GoodCode >>
    /\ PutCalls = 1

\* C5: the classifier is never invoked more than twice; after a bad first
\* response the invocation sleeps once, for the fixed delay, and then
\* invokes the classifier once more; the sleep lies strictly between the
\* first and the second invocation.
C5_OneDelayedRetry ==
    /\ Invokes <= 2
    /\ Sleeps <= 1
    /\ (Len(codes) >= 1 /\ codes[1] # GoodCode) =>
        /\ pc # "sleep" => (Sleeps = 1 /\ slept = reattempt_delay)
        /\ pc \notin {"sleep", "invoke2"} => Invokes = 2
    /\ \A i \in 1..Len(trace) : trace[i] = "sleep" =>
        /\ Cardinality({ j \in 1..(i - 1) :
                trace[j] \in {"invoke", "invoke_raise"} }) = 1
        /\ Len(codes) >= 1 /\ codes[1] # GoodCode
    /\ Invokes = 2 => Sleeps = 1

C5_Witness ==
    /\ Len(codes) = 2
    /\ codes[1] # GoodCode
    /\ Sleeps = 1
    /\ slept = reattempt_delay

\* C6 as stated: a re-queued item never shares a batch write with an item
\* that is attempted for the first time.
C6_RequeuedNeverSharesBatch ==
    \A k \in 1..Writes :
        ~ \E i \in Positions(k), j \in Positions(k) :
            ~Requeued(k, i) /\ Requeued(k, j)

\* C6 as amended: a re-queued item never precedes a first attempt.  When a
\* re-queued item is resubmitted, every one of the N original records has
\* been submitted in an earlier batch write or at an earlier position of the
\* same batch write.
C6_RequeuedNeverPrecedesFirstAttempt ==
    InPut =>
        \A k \in 1..Writes :
            LET earlier == SubmittedIn(1, k - 1)
                unattempted == (1..N) \ earlier
                \* the first re-queued item of batch write k: what precedes
                \* it precedes every re-queued item of the batch
                j == FirstOf(k, earlier)
            IN j # 0 => unattempted \subseteq HeadOf(k, j)

C6_Witness ==
    \E k \in 1..Writes : \E i \in Positions(k), j \in Positions(k) :
        ~Requeued(k, i) /\ Requeued(k, j) /\ i < j

\* C7: without unprocessed items the batches written so far followed by the
\* work queue are the N records in the classifier's order; every batch but
\* the last has 25 records; when the loop has ended there were exactly
\* ceil(N/25) batch writes and the last holds 1 to 25 records.
C7_BatchesOfTwentyFive ==
    (InPut /\ pc # "raised" /\ Rejections = 0) =>
        /\ \A k \in 1..Writes : \A i \in Positions(k) :
             Batch(k)[i] = (k - 1) * batch_size + i
        /\ \A i \in 1..Len(request_items) :
             Queue[i] = Writes * batch_size + i
        /\ \A k \in 1..Writes :
             /\ Len(Batch(k)) \in 1..batch_size
             /\ k < Writes => Len(Batch(k)) = batch_size
        /\ pc \in {"remove", "returned"} =>
             /\ Writes = CeilDiv(N)
             /\ Writes > 0 =>
                  Len(Batch(Writes))
                      = N - (Writes - 1) * batch_size

C7_Witness ==
    /\ pc = "returned"
    /\ Rejections = 0
    /\ N = MaxRecords
    /\ Writes = 2
    /\ Len(Batch(1)) = batch_size
    /\ Len(Batch(2)) = MaxRecords - batch_size

\* C8: the loop ends (with the summary, or with an error raised by the
\* store call); the summary is logged only with an empty work queue and at
\* most once, and exactly once when put_dynamodb has returned.
C8_LoopDrainsThenLogsOnce ==
    /\ [](/\ Summaries <= 1
          /\ Summaries = 1 => (InPut /\ request_items = << >>)
          /\ (InPut /\ pc \in {"remove", "returned"}) => Summaries = 1)
    /\ (pc = "loop") ~> (Summaries = 1 \/ pc = "raised")

C8_Witness ==
    /\ pc = "returned"
    /\ Summaries = 1
    /\ Writes >= 2
    /\ Rejections >= 1

\* C9: as long as every batch write so far reported unprocessed items (and
\* no store call raised), the loop is still running with a non-empty work
\* queue: no summary is logged, the artifact is still there, the invocation
\* has neither returned nor raised.
C9_SustainedRejectionKeepsLooping ==
    (/\ InPut /\ N > 0
     /\ Count(trace, "batch_write_raise") = 0
     /\ \A k \in 1..Writes : batch_writes[k].unprocessed # << >>) =>
        /\ pc = "loop"
        /\ LoopCond(request_items)
        /\ Summaries = 0
        /\ artifact

C9_Witness ==
    /\ pc = "loop"
    /\ Writes = MaxRejections
    /\ \A k \in 1..Writes : batch_writes[k].unprocessed # << >>

\* C10: whatever the store reports, the record at position i of the
\* original work queue is first submitted in batch write ceil(i/25); and
\* when the items of a wholly unprocessed batch are resubmitted, every item
\* that was queued at the time of that batch has been submitted in between
\* (in an earlier batch write or earlier in the same batch write).
C10_NoStarvation ==
    InPut =>
        /\ \A k \in 1..Min(Writes, CeilDiv(N)) :
             LET m == Min(k * batch_size, N) - (k - 1) * batch_size
             IN /\ Len(Batch(k)) >= m
                /\ SubSeq(Batch(k), 1, m)
                       = [j \in 1..m |-> (k - 1) * batch_size + j]
        /\ \A k \in 1..Writes :
             Range(Batch(k)) \subseteq 1..Min(k * batch_size, N)
        /\ \A k \in 1..Writes :
             batch_writes[k].unprocessed = Batch(k) =>
                LET rejected == Range(Batch(k))
                    queued == Range(batch_writes[k].queued)
                IN \A k2 \in (k + 1)..Writes :
                     \* the first item of batch write k2 that comes from
                     \* the rejected batch
                     LET j == FirstOf(k2, rejected)
                     IN j # 0 =>
                          queued \subseteq
                              (SubmittedIn(k + 1, k2 - 1) \cup HeadOf(k2, j))

C10_Witness ==
    /\ N > batch_size
    /\ Writes >= 2
    /\ batch_writes[1].unprocessed = Batch(1)
    /\ batch_writes[1].queued # << >>
    /\ \E j \in Positions(2) : Requeued(2, j)

\* C11: with an empty result list the loop issues no batch write (and no
\* store call at all), and put_dynamodb logs the summary once, with an
\* empty consumed-capacity sequence and an empty retry-attempt sequence.
C11_EmptyResultListWritesNothing ==
    (InPut /\ N = 0) =>
        /\ Writes = 0
        /\ Count(trace, "batch_write_raise") = 0
        /\ pc \in {"loop", "remove", "returned"}
        /\ pc = "loop" => log_info = << >>
        /\ pc \in {"remove", "returned"} =>
             /\ Summaries = 1
             /\ Len(log_info) = 1
             /\ log_info[1].consumed_capacities = << >>
             /\ log_info[1].retry_attempts = << >>

C11_Witness ==
    /\ pc = "returned"
    /\ InPut /\ N = 0
    /\ Len(log_info) = 1
    /\ log_info[1].consumed_capacities = << >>

\* C12: every item submitted in a batch write, re-submitted items included,
\* and every item in the work queue carries as its time the seconds part of
\* the producer timestamp, whatever the subsecond part is.
C12_TimeIsTruncatedSeconds ==
    InPut =>
        /\ \A k \in 1..Writes :
             Range(batch_writes[k].times) \subseteq { fragment_tags[1] }
        /\ Range(Times(request_items)) \subseteq { fragment_tags[1] }
        /\ producer_timestamp_sec = fragment_tags[1]

C12_Witness ==
    /\ InPut
    /\ fragment_tags = << 1700000000, 999999 >>
    /\ Writes >= 2
    /\ FirstOf(2, SubmittedIn(1, 1)) # 0
    /\ Range(batch_writes[2].times) = { 1700000000 }

\* C13: every batch write submits at least 1 and at most 25 items, and the
\* store reports at most the items submitted.
C13_BatchHasOneToTwentyFiveItems ==
    \A k \in 1..Writes :
        /\ Len(Batch(k)) >= 1
        /\ Len(Batch(k)) <= batch_size
        /\ Len(batch_writes[k].times) = Len(Batch(k))
        /\ Range(batch_writes[k].unprocessed) \subseteq Range(Batch(k))

C13_Witness ==
    /\ Writes >= 3
    /\ Len(Batch(2)) = batch_size
    /\ FirstOf(2, SubmittedIn(1, 1)) > 1
    /\ Len(Batch(3)) = 1

\* C14: the two accumulators hold one value per batch write issued so far,
\* in batch order: the capacity units the store reported for the batch, or
\* 0 when it reported none, and the retry attempts of the batch; the summary
\* line logs the accumulators as they are when the loop has ended.
C14_OneValuePerBatchWrite ==
    InPut =>
        /\ Len(consumed_capacities) = Writes
        /\ Len(retry_attempts) = Writes
        /\ \A k \in 1..Writes :
             /\ batch_writes[k].capacity = << >>
                    => consumed_capacities[k] = 0
             /\ batch_writes[k].capacity # << >>
                    => consumed_capacities[k] = batch_writes[k].capacity[1]
             /\ retry_attempts[k] = batch_writes[k].retries
        /\ log_info # << >> =>
             /\ log_info[1].consumed_capacities = consumed_capacities
             /\ log_info[1].retry_attempts = retry_attempts
             /\ log_info[1].timestamp = fragment_tags

C14_Witness ==
    /\ pc = "returned"
    /\ Len(log_info) = 1
    /\ Len(log_info[1].consumed_capacities) = 3
    /\ batch_writes[1].unprocessed = Batch(1)
    /\ batch_writes[1].capacity = << >>
    /\ batch_writes[2].capacity # << >>

\* C15: the steps are ordered.  The classifier is invoked only after the
\* transcoder step has completed, and the artifact exists from then until
\* it is removed; put_dynamodb is entered, and a batch write issued, only
\* after a response with code 200, which is the last response received; the
\* artifact is removed as the last step, after the summary of put_dynamodb
\* or after the warning that nothing is written.
C15_StepsInOrder ==
    /\ \A i \in 1..Len(trace) :
         /\ trace[i] \in {"invoke", "invoke_raise"} => trace[1] = "mkv2ogg"
         /\ trace[i] = "remove" =>
              /\ i = Len(trace) /\ i > 1
              /\ trace[i - 1] \in {"summary", "warn_not_writing"}
              /\ trace[i - 1] = "summary" <=> PutCalls = 1
    /\ pc \in {"invoke1", "sleep", "invoke2", "dispatch", "put_dynamodb",
               "loop", "remove"} => artifact
    /\ (PutCalls > 0 \/ Writes > 0 \/ Count(trace, "batch_write_raise") > 0) =>
         /\ PutCalls = 1
         /\ codes # << >> /\ codes[Len(codes)] = GoodCode
         /\ Len(codes) = Invokes
    /\ Count(trace, "remove") = 1 <=> pc = "returned"

C15_Witness ==
    /\ pc = "returned"
    /\ Len(codes) = 2
    /\ Writes >= 2
    /\ Summaries = 1
    /\ trace[Len(trace)] = "remove"

\* C16: when the transcoder step fails the invocation ends with the error:
\* the transcoder is not run again, the classifier is not invoked, nothing
\* is slept, put_dynamodb is not entered and no batch write is issued.
C16_TranscoderFailurePropagates ==
    Count(trace, "mkv2ogg_raise") > 0 =>
        /\ trace = << "mkv2ogg_raise" >>
        /\ pc = "raised"
        /\ Invokes = 0
        /\ Sleeps = 0 /\ slept = 0
        /\ PutCalls = 0
        /\ Writes = 0

C16_Witness ==
    /\ pc = "raised"
    /\ trace = << "mkv2ogg_raise" >>

\* C17: after a bad first response and a good retried response put_dynamodb
\* is entered exactly once, with the retried response: every item submitted
\* or queued is an item of the retried response, and when the loop has ended
\* the store has accepted as many items as the retried response has entries.
C17_RetriedResponseIsPersisted ==
    (/\ Len(codes) = 2 /\ codes[1] # GoodCode /\ codes[2] = GoodCode
     /\ pc # "dispatch") =>
        /\ PutCalls = 1
        /\ lambda_response = responses[2]
        /\ \A k \in 1..Writes :
             Range(Batch(k)) \subseteq 1..responses[2].top_results
        /\ Range(Queue) \subseteq 1..responses[2].top_results
        /\ pc \in {"remove", "returned"} =>
             AcceptedCount(Writes) = responses[2].top_results

C17_Witness ==
    /\ pc = "returned"
    /\ Len(codes) = 2 /\ codes[1] # GoodCode /\ codes[2] = GoodCode
    /\ responses[1].top_results > responses[2].top_results
    /\ responses[2].top_results > batch_size
    /\ AcceptedCount(Writes) = responses[2].top_results

\* C18: when the producer timestamp does not have exactly two parts, no
\* batch write is ever issued and no work queue is built; put_dynamodb, once
\* entered, ends with the error of the split, which is raised only after
\* the transcoder has run and the classifier has answered with code 200.
C18_MalformedTimestampFailsBeforeAnyWrite ==
    Len(fragment_tags) # 2 =>
        /\ Writes = 0
        /\ Count(trace, "batch_write_raise") = 0
        /\ request_items = << >>
        /\ pc # "loop"
        /\ Summaries = 0
        /\ (PutCalls = 1 /\ pc # "put_dynamodb") =>
             /\ pc = "raised"
             /\ trace[Len(trace)] = "split_raise"
        /\ Count(trace, "split_raise") > 0 =>
             /\ trace[1] = "mkv2ogg"
             /\ Invokes >= 1
             /\ codes[Len(codes)] = GoodCode
             /\ lambda_response.code = GoodCode

C18_Witness ==
    /\ pc = "raised"
    /\ Len(fragment_tags) = 3
    /\ Count(trace, "split_raise") = 1
    /\ Len(codes) = 2

====
